---- MODULE Spec2Model ----
(***************************************************************************)
(* The DataJointWorker run loop of datajoint_utilities/dj_worker/worker.py *)
(* with the ledgers of worker_schema.py and the job queue of the pipeline  *)
(* schema it cleans up and purges.                                         *)
(*                                                                         *)
(* Spec: one worker object.  Its constructor arguments are drawn in Init; *)
(* add_step, run, and every step of run are actions.  A database          *)
(* operation may fail (raise) wherever the code performs one.              *)
(* SpecPurge: the purge at the end of run(), on every queue.               *)
(* SpecStale: the handling of stale reserved jobs, on every queue.         *)
(* SpecRegistry, SpecRegistrySeq: register_worker of several processes.    *)
(* SpecErrorLog: the ErrorLog upserts of several processes.                *)
(***************************************************************************)
EXTENDS Integers, Sequences, FiniteSets, TLC

(***************************************************************************)
(* Bounds of the model.                                                    *)
(***************************************************************************)
MaxTime == 1        \* the clock (seconds) runs over 0..MaxTime
MaxIdle == 1        \* max_idled_cycle is drawn from -1..MaxIdle
MaxSteps == 2       \* add_step is accepted while fewer steps are listed
MaxCycles == MaxIdle + 2
MaxAgeHours == 3   \* cycles one run may start in the model

None == -1                 \* Python's None in an integer field
DefaultStaleTimeoutHours == 24
CutoffDays == 30           \* delete_old_logs(cutoff_days=30)
SecondsPerDay == 86400     \* TIMESTAMPDIFF(DAY, ...)
SecondsPerHour == 3600     \* TIMESTAMPDIFF(HOUR, ...)

Tables == {"T1", "T2"}     \* AutoPopulate tables of the pipeline schema
Functions == {"f"}         \* plain functions usable as steps
StepTargets == {"T1", "f"} \* what add_step is called with
AutoPopulateTables == Tables \cup {"U1"} \* U1: no schema applied to the class
OtherTables == {"L1"}      \* a Lookup table: a UserTable, not AutoPopulate
OtherObjects == {"obj"}    \* neither a table nor a function or method
AnyTargets == AutoPopulateTables \cup OtherTables \cup Functions \cup OtherObjects
NoNotifyOn == {"None"}     \* notify_on=None
NotifyStrings == {"start", "success", "Error", "bogus"}
Notifiers == {"n1"}        \* the notifiers the worker is constructed with
Keys == {"k1", "k2"}       \* primary keys the upstream data may hold
InitialKeys == {"k1"}      \* those it holds when the worker is constructed
SchemaName == "pipeline"   \* callable.database of every table
WorkerName == "w"
OwnConnection == "c0"      \* CONNECTION_ID() of this worker
PeerConnections == {"c1"}  \* connections of other worker processes
NoKwargs == <<>>           \* add_step(**kwargs) with no keyword argument

\* error messages a failed make() leaves in the jobs table
ErrorMessages == {<<"Deadlock">>, <<"ValueError">>}
StaleMessage == <<"Stale reserved job (process crashed or terminated without error)">>
\* str(e) of the exceptions a function step raises
ExceptionTexts == {"boom"}
ExceptionClasses == {"ValueError"}
\* e.key of those that carry a key dict
ExceptionKeys == {"k1"}

VARIABLES
    \* ---- the worker object (DataJointWorker.__init__)
    run_duration,         \* self._run_duration
    max_idled_cycle,      \* self._max_idled_cycle
    autoclear_error_patterns, \* self._autoclear_error_patterns
    stale_timeout_hours,  \* self._stale_timeout_hours
    processes_to_run,     \* self._processes_to_run: sequence of steps
    pipeline_modules,     \* self._pipeline_modules: schema names tracked
    is_registered,        \* self._is_registered
    idled_cycle_count,    \* self._idled_cycle_count ("None" before any run)
    run_start_time,       \* self._run_start_time   ("None" before any run)
    \* ---- control position inside run()
    pc,                   \* outside run(): "idle", or "returned" / "raised"
                          \* right after run() returned / raised; inside:
                          \* "check" | "step" | "cleanup" | "prune" | "purge"
    step_index,           \* position in processes_to_run (cycle and purge)
    success_count,        \* local of _run_once
    \* ---- environment
    now,                  \* time.time()
    processlist,          \* ids of the open database connections
    jobs,                 \* schema.jobs: rows of the job queue
    key_source,           \* table.key_source, per table
    target,               \* keys present in the table itself
    \* ---- the worker schema
    registered_worker,    \* RegisteredWorker rows
    registered_process,   \* RegisteredWorker.Process rows
    worker_log,           \* WorkerLog rows
    error_log,            \* ErrorLog rows
    \* ---- history of the current run() (not program state)
    cycles_busy,          \* cycles that returned a non-zero count
    cycles_raised,        \* cycles in which _run_once raised
    purge_calls,          \* purge_invalid_jobs calls per step index
    \* ---- arguments and parties outside the one worker object
    remove_stale_reserved_jobs, \* deprecated constructor argument
    stale_action,         \* action argument of a direct handle_stale_reserved_jobs call
    deployments,          \* worker objects of several processes, one worker_name
    writers,              \* processes inside an ErrorLog upsert
    \* ---- one call followed statement by statement
    cleaning,             \* position and locals of a _clean_up call
    populate_handler,     \* self._populate_handler: None or tables_to_notify
    last_emit,            \* the last record PopulateHandler.emit was given
    add_step_result       \* how the last add_step call ended

worker_vars == <<run_duration, max_idled_cycle, autoclear_error_patterns,
                 stale_timeout_hours, processes_to_run, pipeline_modules,
                 is_registered, idled_cycle_count, run_start_time>>
control_vars == <<pc, step_index, success_count>>
env_vars == <<now, processlist, jobs, key_source, target>>
ledger_vars == <<registered_worker, registered_process, worker_log, error_log>>
history_vars == <<cycles_busy, cycles_raised, purge_calls>>
call_vars == <<cleaning, populate_handler, last_emit, add_step_result>>
aux_vars == <<remove_stale_reserved_jobs, stale_action, deployments, writers, call_vars>>
vars == <<worker_vars, control_vars, env_vars, ledger_vars, history_vars, aux_vars>>

(***************************************************************************)
(* Helpers                                                                 *)
(***************************************************************************)
Range(s) == {s[i] : i \in DOMAIN s}

\* list.insert(index, x) for 0 <= index <= len
InsertAt(s, index, x) == SubSeq(s, 1, index) \o <<x>> \o SubSeq(s, index + 1, Len(s))

\* SQL LIKE over token sequences: "%" matches any run of tokens
RECURSIVE Like(_, _)
Like(m, p) ==
    IF p = <<>> THEN m = <<>>
    ELSE IF Head(p) = "%"
         THEN \E i \in 0..Len(m) : Like(SubSeq(m, i + 1, Len(m)), Tail(p))
         ELSE m # <<>> /\ Head(m) = Head(p) /\ Like(Tail(m), Tail(p))

\* a set as a sequence in some fixed order (the order of a fetch)
RECURSIVE SetToSeq(_)
SetToSeq(S) ==
    IF S = {} THEN <<>>
    ELSE LET x == CHOOSE y \in S : TRUE IN <<x>> \o SetToSeq(S \ {x})

TableName(process) == process   \* table.table_name, the jobs table's table_name

\* get_process_name(process, db_prefix): "<schema>.<Table>" or the function name
get_process_name(step) ==
    IF step.type = "dj_table" THEN <<SchemaName, step.process>> ELSE <<step.process>>

\* dict_to_uuid: an md5 digest of the sorted items, taken as collision free
dict_to_uuid(d) == <<"uuid", d>>

(***************************************************************************)
(* purge_invalid_jobs(JobTable, table)                                     *)
(***************************************************************************)
\* variant for C10: the test without its second half
is_invalid_job_key_source_only(job, table) ==
    job.key \notin key_source[table]

\* "(not (table.key_source & job_key)) or (table & job_key)"
is_invalid_job(job, table) ==
    (job.key \notin key_source[table]) \/ (job.key \in target[table])

\* the for loop over the fetched rows: "(jobs_query & key).delete()" for
\* every fetched row that is invalid
RECURSIVE purge_loop(_, _, _)
purge_loop(JobTable, fetched, table) ==
    IF fetched = <<>> THEN JobTable
    ELSE LET job == Head(fetched) IN
         IF is_invalid_job(job, table)
         THEN purge_loop({r \in JobTable :
                            ~(r.table_name = TableName(table)
                              /\ r.table_name = job.table_name /\ r.key = job.key)},
                         Tail(fetched), table)
         ELSE purge_loop(JobTable, Tail(fetched), table)

purge_invalid_jobs(JobTable, table) ==
    LET jobs_query == {r \in JobTable : r.table_name = TableName(table)}
    IN  IF jobs_query = {} THEN JobTable
        ELSE purge_loop(JobTable, SetToSeq(jobs_query), table)

(***************************************************************************)
(* Init: the state after DataJointWorker(worker_name, worker_schema_name,  *)
(* run_duration=..., max_idled_cycle=...) on an empty worker schema.       *)
(***************************************************************************)
\* no deprecated argument, no direct call, no other worker process
NoCleaning == [stage |-> "none", before |-> {}, fetched |-> <<>>,
               log |-> {}, deleted |-> {}]
NoEmit == [status |-> "none"]
NoAddStep == [callable |-> "none", outcome |-> "none"]

\* tables_to_notify.get(full_table_name, {}) of a table never watched
Unwatched == [start |-> FALSE, success |-> FALSE, error |-> FALSE]
\* self._populate_handler = None
NoHandler == [configured |-> FALSE, tables_to_notify |-> [t \in Tables |-> Unwatched]]

\* no _clean_up call under way, no notifier, nothing emitted, no add_step yet
NoCall ==
    /\ cleaning = NoCleaning
    /\ populate_handler = NoHandler
    /\ last_emit = NoEmit
    /\ add_step_result = NoAddStep

NoOtherParties ==
    /\ NoCall
    /\ remove_stale_reserved_jobs = "None"
    /\ stale_action = "error"
    /\ deployments = <<>>
    /\ writers = <<>>

Init ==
    /\ run_duration \in -1..MaxTime
    /\ max_idled_cycle \in -1..MaxIdle
    /\ autoclear_error_patterns = {<<"%", "CustomTimeout", "%">>}
    /\ stale_timeout_hours = DefaultStaleTimeoutHours
    /\ processes_to_run = <<>>
    /\ pipeline_modules = {}
    /\ is_registered = FALSE
    /\ idled_cycle_count = None
    /\ run_start_time = None
    /\ pc = "idle"
    /\ step_index = 0
    /\ success_count = 0
    /\ now = 0
    /\ processlist = {OwnConnection}
    /\ jobs = {}
    /\ key_source = [t \in Tables |-> InitialKeys]
    /\ target = [t \in Tables |-> {}]
    /\ registered_worker = {}
    /\ registered_process = {}
    /\ worker_log = {}
    /\ error_log = {}
    /\ cycles_busy = 0
    /\ cycles_raised = 0
    /\ purge_calls = <<>>
    /\ NoOtherParties

NotRunning == pc \in {"idle", "returned", "raised"}
InCycle == pc \in {"step", "cleanup", "prune"}

(***************************************************************************)
(* add_step(callable, position_, **kwargs)                                 *)
(***************************************************************************)
\* is_djtable(obj, base_class): UserTable when no base class is given
is_djtable(obj, base_class) ==
    IF base_class = "AutoPopulate" THEN obj \in AutoPopulateTables
    ELSE obj \in AutoPopulateTables \cup OtherTables

\* callable.database: None for a table class no schema was applied to
database(callable) == IF callable \in Tables THEN SchemaName ELSE ""

\* variant for C24: the assert is not made
add_step_outcome_unasserted(callable) ==
    IF is_djtable(callable, "UserTable")
    THEN IF database(callable) = "" THEN "skipped" ELSE "added"
    ELSE IF callable \in Functions THEN "added" ELSE "TypeError"

\* the way add_step ends for `callable`: the assert fails, the early return
\* is taken, "raise NotImplemented(...)" is reached (NotImplemented is not
\* callable: a TypeError), or the end of the method is reached
add_step_outcome(callable) ==
    IF is_djtable(callable, "UserTable")
    THEN IF ~is_djtable(callable, "AutoPopulate") THEN "AssertionError"
         ELSE IF database(callable) = "" THEN "skipped" ELSE "added"
    ELSE IF callable \in Functions THEN "added" ELSE "TypeError"

\* s.lower() for the strings of notify_on
lower(s) == IF s = "Error" THEN "error" ELSE s

\* PopulateHandler.watch_table(full_table_name, on_start, on_success, on_error)
watch_table(handler, full_table_name, on_start, on_success, on_error) ==
    [handler EXCEPT !.tables_to_notify[full_table_name] =
        [start |-> on_start, success |-> on_success, error |-> on_error]]

\* the notification block of add_step
notification_settings(handler, callable, notify_on) ==
    IF handler.configured /\ notify_on # NoNotifyOn /\ Cardinality(notify_on) > 0
    THEN LET notify_set == {lower(x) : x \in notify_on}
             on_start == "start" \in notify_set
             on_success == "success" \in notify_set
             on_error == "error" \in notify_set
         IN  IF on_start \/ on_success \/ on_error
             THEN watch_table(handler, callable, on_start, on_success, on_error)
             ELSE handler
    ELSE handler

add_step(callable, position_, notify_on) ==
    LET index == IF position_ = None THEN Len(processes_to_run) ELSE position_
        outcome == add_step_outcome(callable)
    IN  /\ NotRunning
        /\ Len(processes_to_run) < MaxSteps
        /\ add_step_result' = [callable |-> callable, outcome |-> outcome]
        /\ IF outcome # "added"
           THEN UNCHANGED <<processes_to_run, pipeline_modules, is_registered,
                            populate_handler>>
           ELSE /\ IF is_djtable(callable, "UserTable")
                   THEN /\ populate_handler' =
                              notification_settings(populate_handler, callable, notify_on)
                        /\ processes_to_run' = InsertAt(processes_to_run, index,
                              [type |-> "dj_table", process |-> callable, kwargs |-> NoKwargs])
                        /\ pipeline_modules' = pipeline_modules \cup {database(callable)}
                   ELSE /\ processes_to_run' = InsertAt(processes_to_run, index,
                              [type |-> "function", process |-> callable, kwargs |-> NoKwargs])
                        /\ UNCHANGED <<pipeline_modules, populate_handler>>
                /\ is_registered' = FALSE
        /\ pc' = "idle"
        /\ UNCHANGED <<run_duration, max_idled_cycle, autoclear_error_patterns,
                       stale_timeout_hours, idled_cycle_count, run_start_time>>
        /\ UNCHANGED <<step_index, success_count, env_vars, ledger_vars, history_vars>>
        /\ UNCHANGED <<remove_stale_reserved_jobs, stale_action, deployments, writers,
                       cleaning, last_emit>>

\* worker(callable) or worker.add_step(callable) with a target it accepts
\* and no notify_on
AddStep ==
    \E callable \in StepTargets :
        \E position_ \in {None} \cup (0..Len(processes_to_run)) :
            add_step(callable, position_, NoNotifyOn)

(***************************************************************************)
(* register_worker()                                                       *)
(***************************************************************************)
\* the entry register_worker builds for the step at `index` of `steps`
step_entry(steps, index) ==
    LET step == steps[index + 1]
    IN  [worker_name |-> WorkerName,
         process |-> get_process_name(step),
         process_index |-> index,
         full_table_name |-> IF step.type = "dj_table"
                             THEN <<SchemaName, step.process>> ELSE <<>>,
         key_source_sql |-> IF step.type = "dj_table"
                            THEN <<"key_source", step.process>> ELSE <<>>,
         process_kwargs |-> step.kwargs]

process_entry(index) == step_entry(processes_to_run, index)

process_entries_of(steps) ==
    [i \in 1..Len(steps) |->
        LET entry == step_entry(steps, i - 1)
        IN  [worker_name |-> entry.worker_name,
             process |-> entry.process,
             process_index |-> entry.process_index,
             full_table_name |-> entry.full_table_name,
             key_source_sql |-> entry.key_source_sql,
             process_kwargs |-> entry.process_kwargs,
             process_config_uuid |-> dict_to_uuid(entry)]]

process_entries == process_entries_of(processes_to_run)

\* dict_to_uuid({e["process_index"]: e["process_config_uuid"] for e in process_entries})
worker_config_uuid_of(steps) ==
    dict_to_uuid([i \in 1..Len(steps) |-> process_entries_of(steps)[i].process_config_uuid])

worker_config_uuid == worker_config_uuid_of(processes_to_run)

worker_entry_of(steps, worker_kwargs, registration_time) ==
    [worker_name |-> WorkerName,
     registration_time |-> registration_time,
     worker_kwargs |-> worker_kwargs,
     worker_config_uuid |-> worker_config_uuid_of(steps)]

worker_entry ==
    worker_entry_of(processes_to_run,
                    [run_duration |-> run_duration,
                     max_idled_cycle |-> max_idled_cycle,
                     autoclear_error_patterns |-> autoclear_error_patterns,
                     stale_timeout_hours |-> stale_timeout_hours],
                    now)

\* the three assignments register_worker makes, as (flag, worker rows, process rows)
register_worker ==
    IF is_registered
    THEN <<is_registered, registered_worker, registered_process>>
    ELSE IF \E r \in registered_worker :
                r.worker_name = WorkerName /\ r.worker_config_uuid = worker_config_uuid
         THEN <<is_registered, registered_worker, registered_process>>
         ELSE <<TRUE,
                {r \in registered_worker : r.worker_name # WorkerName}
                    \cup {worker_entry},
                {r \in registered_process : r.worker_name # WorkerName}
                    \cup Range(process_entries)>>

(***************************************************************************)
(* run(): entry.  register_worker(), then the two assignments before the   *)
(* loop.  register_worker is not inside any try: a failing database call   *)
(* leaves run() by the exception.                                          *)
(***************************************************************************)
RunEnter ==
    /\ NotRunning
    /\ is_registered' = register_worker[1]
    /\ registered_worker' = register_worker[2]
    /\ registered_process' = register_worker[3]
    /\ run_start_time' = now
    /\ idled_cycle_count' = 0
    /\ pc' = "check"
    /\ step_index' = 0
    /\ success_count' = 0
    /\ cycles_busy' = 0
    /\ cycles_raised' = 0
    /\ purge_calls' = [i \in 1..Len(processes_to_run) |-> 0]
    /\ UNCHANGED <<run_duration, max_idled_cycle, autoclear_error_patterns,
                   stale_timeout_hours, processes_to_run, pipeline_modules>>
    /\ UNCHANGED <<env_vars, worker_log, error_log>>
    /\ UNCHANGED aux_vars

\* a query of register_worker fails: only possible when it queries at all
RunRegisterRaise ==
    /\ NotRunning
    /\ ~is_registered
    /\ pc' = "raised"
    /\ UNCHANGED <<worker_vars, step_index, success_count, env_vars,
                   ledger_vars, history_vars>>
    /\ UNCHANGED aux_vars

(***************************************************************************)
(* _keep_running()                                                         *)
(***************************************************************************)
\* variant for C1: the condition as the class docstring words it
exceed_run_duration_docstring ==
    run_duration > 0 /\ now - run_start_time > run_duration

\* variant for C2: the deadline compared with > instead of >=
exceed_run_duration_late ==
    run_duration >= 0 /\ now - run_start_time > run_duration

exceed_run_duration ==
    ~((now - run_start_time < run_duration) \/ (run_duration < 0))

\* variant for C4: the budget compared with <= instead of <
exceed_max_idled_cycle_inclusive ==
    0 < max_idled_cycle /\ max_idled_cycle <= idled_cycle_count

exceed_max_idled_cycle ==
    0 < max_idled_cycle /\ max_idled_cycle < idled_cycle_count

keep_running == ~(exceed_run_duration \/ exceed_max_idled_cycle)

\* cycles started by the current run()
CyclesStarted ==
    idled_cycle_count + cycles_busy + cycles_raised + (IF InCycle THEN 1 ELSE 0)

\* while self._keep_running(): ... (condition true)
StartCycle ==
    /\ pc = "check"
    /\ keep_running
    /\ CyclesStarted < MaxCycles
    /\ pc' = IF processes_to_run = <<>> THEN "cleanup" ELSE "step"
    /\ step_index' = 1
    /\ success_count' = 0
    /\ UNCHANGED <<worker_vars, env_vars, ledger_vars, cycles_busy,
                   cycles_raised, purge_calls>>
    /\ UNCHANGED aux_vars

\* while self._keep_running(): ... (condition false): on to the purge
ExitLoop ==
    /\ pc = "check"
    /\ ~keep_running
    /\ pc' = "purge"
    /\ step_index' = 1
    /\ UNCHANGED <<worker_vars, success_count, env_vars, ledger_vars, history_vars>>
    /\ UNCHANGED aux_vars

(***************************************************************************)
(* _run_once(): one iteration of "for process_type, process, kwargs in     *)
(* self._processes_to_run".                                                *)
(***************************************************************************)
CurrentStep == processes_to_run[step_index]

\* WorkerLog.log_process_job(process, worker_name, db_prefix)
log_process_job(step) ==
    worker_log \cup {[process |-> get_process_name(step),
                      process_timestamp |-> now,
                      worker_name |-> WorkerName]}

\* keys populate() may still take: in key_source, not in the table, no job row
Pending(t) ==
    {k \in key_source[t] \ target[t] :
        ~\E r \in jobs : r.table_name = TableName(t) /\ r.key = k}

\* the row AutoPopulate leaves in the jobs table for a failed make()
ErrorJob(t, k, msg) ==
    [table_name |-> TableName(t), key |-> k, status |-> "error",
     error_message |-> msg, timestamp |-> now, connection_id |-> OwnConnection]

\* variant for C3: the deadline is looked at after every step
AfterStepChecksDeadline ==
    /\ step_index' = step_index + 1
    /\ pc' = IF run_duration >= 0 /\ now - run_start_time >= run_duration
             THEN "check"
             ELSE IF step_index = Len(processes_to_run) THEN "cleanup" ELSE "step"

AfterStep ==
    /\ step_index' = step_index + 1
    /\ pc' = IF step_index = Len(processes_to_run) THEN "cleanup" ELSE "step"

\* process.populate(**{**_populate_settings, **kwargs}): the jobs in `done` are
\* made, those in DOMAIN errs fail; the status is a dict or (older
\* framework) not
PopulateStep ==
    /\ pc = "step"
    /\ CurrentStep.type = "dj_table"
    /\ LET t == CurrentStep.process IN
       \E done \in SUBSET Pending(t), returns_dict \in BOOLEAN :
       \E failed \in SUBSET done :
       \E errs \in [failed -> ErrorMessages] :
          /\ worker_log' = log_process_job(CurrentStep)
          /\ target' = [target EXCEPT ![t] = @ \cup (done \ failed)]
          /\ jobs' = jobs \cup {ErrorJob(t, k, errs[k]) : k \in failed}
          /\ success_count' =
                IF returns_dict
                THEN success_count + Cardinality(done \ failed) + Cardinality(failed)
                ELSE success_count
    /\ AfterStep
    /\ UNCHANGED <<worker_vars, now, processlist, key_source, registered_worker,
                   registered_process, error_log, cycles_busy, cycles_raised,
                   purge_calls>>
    /\ UNCHANGED aux_vars

\* a Python value as far as log_exception looks at it: the name of its class
\* and the text str() gives for it.  str(e) is itself a value of class str.
Exception(class_name, text) == [class_name |-> class_name, text |-> text]
str(value) == [class_name |-> "str", text |-> value.text]

\* "if cls & {"process": entry["process"], "key_hash": entry["key_hash"]}"
same_pair(r, entry) == r.process = entry.process /\ r.key_hash = entry.key_hash
entry_present(log, entry) == \E r \in log : same_pair(r, entry)

\* cls.insert1(entry)
insert1(log, entry) == log \cup {entry}

\* variant for C18: the update adds the entry and keeps the row it finds
update1_keeping(log, entry) == log \cup {entry}

\* cls.update1(entry): the row of the entry's primary key takes its fields
update1(log, entry) == {r \in log : ~same_pair(r, entry)} \cup {entry}

\* the last four lines of log_exception and of log_error_job
upsert(log, entry) ==
    IF entry_present(log, entry) THEN update1(log, entry) ELSE insert1(log, entry)

\* variant for C30: the row is keyed by the process alone
exception_entry_per_process(key, process, error) ==
    [process |-> <<process>>,
     key_hash |-> dict_to_uuid([process |-> process]),
     error_timestamp |-> now,
     key |-> key,
     error_message |-> <<error.class_name, ": ", str(error).text>>]

\* ErrorLog.log_exception(key, process, error): the entry, with
\* "{exception}{msg}".format(exception=error.__class__.__name__,
\*                           msg=": " + str(error) if str(error) else "")
exception_entry(key, process, error) ==
    LET error_message == IF str(error).text # ""
                         THEN <<error.class_name, ": ", str(error).text>>
                         ELSE <<error.class_name>>
    IN  [process |-> <<process>>,
         key_hash |-> dict_to_uuid(key),
         error_timestamp |-> now,
         key |-> key,
         error_message |-> error_message]

log_exception(key, process, error) ==
    upsert(error_log, exception_entry(key, process, error))

\* variant for C26: the exception is logged and ends the cycle
FunctionStepAbandons ==
    /\ pc = "step"
    /\ CurrentStep.type = "function"
    /\ worker_log' = log_process_job(CurrentStep)
    /\ \/ UNCHANGED error_log /\ AfterStep
       \/ /\ \E c \in ExceptionClasses, text \in ExceptionTexts :
               LET e == Exception(c, text) IN
               error_log' = log_exception([error_time |-> now], CurrentStep.process, str(e))
          /\ pc' = "check"
          /\ UNCHANGED step_index
    /\ UNCHANGED <<worker_vars, success_count, env_vars, registered_worker,
                   registered_process, cycles_busy, cycles_raised, purge_calls>>
    /\ UNCHANGED aux_vars

\* process(**kwargs) inside try/except: it returns, or raises an exception
\* that carries a key dict, or one that carries none
FunctionStep ==
    /\ pc = "step"
    /\ CurrentStep.type = "function"
    /\ worker_log' = log_process_job(CurrentStep)
    /\ \/ UNCHANGED error_log
       \/ \E k \in ExceptionKeys, c \in ExceptionClasses, text \in ExceptionTexts :
            LET e == Exception(c, text) IN
            error_log' = log_exception([key |-> k], CurrentStep.process, str(e))
       \/ \E c \in ExceptionClasses, text \in ExceptionTexts :
            LET e == Exception(c, text) IN
            error_log' = log_exception([error_time |-> now], CurrentStep.process, str(e))
    /\ AfterStep
    /\ UNCHANGED <<worker_vars, success_count, env_vars, registered_worker,
                   registered_process, cycles_busy, cycles_raised, purge_calls>>
    /\ UNCHANGED aux_vars

(***************************************************************************)
(* _clean_up(pipeline_modules, additional_error_patterns, db_prefix,       *)
(*           stale_timeout_hours)                                          *)
(***************************************************************************)
generic_errors ==
    {<<"%", "Deadlock", "%">>, <<"%", "Lock wait timeout", "%">>,
     <<"%", "MaxRetryError", "%">>, <<"%", "KeyboardInterrupt", "%">>,
     <<"InternalError: (1205", "%">>, <<"%", "SIGTERM", "%">>,
     <<"%", "LostConnectionError", "%">>}

MatchesAny(r, patterns) ==
    r.status = "error" /\ \E p \in patterns : Like(r.error_message, p)

\* ErrorLog.log_error_job(error_entry, schema_name, db_prefix): the entry
error_job_entry(error_entry) ==
    [process |-> <<SchemaName, error_entry.table_name>>,
     key_hash |-> dict_to_uuid([key |-> error_entry.key]),
     error_timestamp |-> error_entry.timestamp,
     key |-> [key |-> error_entry.key],
     error_message |-> error_entry.error_message]

\* ErrorLog.log_error_job on the ledger `log`
log_error_job(log, error_entry) == upsert(log, error_job_entry(error_entry))

RECURSIVE LogErrorJobs(_, _)
LogErrorJobs(log, entries) ==
    IF entries = <<>> THEN log
    ELSE LogErrorJobs(log_error_job(log, Head(entries)), Tail(entries))

\* "TIMESTAMPDIFF(HOUR, timestamp, NOW())": whole hours
elapsed_hours(r) == (now - r.timestamp) \div SecondsPerHour

\* variant for C29: the query without its WHERE clause
current_connections_with_own == processlist

\* "SELECT id FROM information_schema.processlist WHERE id <> CONNECTION_ID()"
current_connections == processlist \ {OwnConnection}

\* variant for C11: every connection id that is not open counts, the
\* caller's own connection included in the open ones
stale_jobs_all_connections(queue, timeout_hours) ==
    {r \in queue : /\ r.status = "reserved"
                   /\ elapsed_hours(r) > timeout_hours
                   /\ r.connection_id \notin processlist}

\* the stale_jobs query with its "connection_id NOT IN (...)" restriction
stale_jobs(queue, timeout_hours) ==
    LET reserved_old == {r \in queue : r.status = "reserved"
                                       /\ elapsed_hours(r) > timeout_hours}
    IN  IF current_connections # {}
        THEN {r \in reserved_old : r.connection_id \notin current_connections}
        ELSE reserved_old

\* jobs.error(table_name, job_key, error_message=...): the row is replaced
stale_error_row(r) ==
    [table_name |-> r.table_name, key |-> r.key, status |-> "error",
     error_message |-> StaleMessage, timestamp |-> now,
     connection_id |-> OwnConnection]

\* variant for C12: action "error" treated as action "remove"
handle_stale_reserved_jobs_removing(queue, timeout_hours, action) ==
    IF timeout_hours <= 0 \/ action = "None" THEN queue
    ELSE queue \ stale_jobs(queue, timeout_hours)

\* handle_stale_reserved_jobs(pipeline_module, stale_timeout_hours, action)
handle_stale_reserved_jobs(queue, timeout_hours, action) ==
    IF timeout_hours <= 0 THEN queue
    ELSE CASE action = "None" -> queue
           [] action = "remove" -> queue \ stale_jobs(queue, timeout_hours)
           [] action = "error" ->
                (queue \ stale_jobs(queue, timeout_hours)) \cup
                {stale_error_row(r) : r \in stale_jobs(queue, timeout_hours)}

\* variant for C21: the delete without its 'status = "error"' restriction
clear_generic_errors_any_status(queue) ==
    {r \in queue : ~\E p \in generic_errors : Like(r.error_message, p)}

\* the queue after the generic errors are deleted
clear_generic_errors(queue) == {r \in queue : ~MatchesAny(r, generic_errors)}

additional_error_query(queue) ==
    {r \in queue : MatchesAny(r, autoclear_error_patterns)}

CleanUp ==
    /\ pc = "cleanup"
    /\ IF pipeline_modules = {}
       THEN UNCHANGED <<jobs, error_log>>
       ELSE LET q1 == clear_generic_errors(jobs)
                extra == additional_error_query(q1)
            IN  /\ error_log' = LogErrorJobs(error_log, SetToSeq(extra))
                /\ jobs' = handle_stale_reserved_jobs(q1 \ extra, stale_timeout_hours, "error")
    /\ pc' = "prune"
    /\ UNCHANGED <<worker_vars, step_index, success_count, now, processlist,
                   key_source, target, registered_worker, registered_process,
                   worker_log, cycles_busy, cycles_raised, purge_calls>>
    /\ UNCHANGED aux_vars

(***************************************************************************)
(* WorkerLog.delete_old_logs(); ErrorLog.delete_old_logs(); return         *)
(* success_count; and, back in run(), the else branch of the try and       *)
(* time.sleep(self._sleep_duration), which ends at the loop condition.     *)
(***************************************************************************)
ElapsedDays(timestamp) == (now - timestamp) \div SecondsPerDay

\* variant for C25: nothing is deleted while the newest record is within
\* the cutoff
delete_old_worker_logs_newest(log) ==
    IF \E r \in log : ElapsedDays(r.process_timestamp) <= CutoffDays
    THEN log
    ELSE {}

delete_old_worker_logs(log) ==
    LET old_jobs == {r \in log : ElapsedDays(r.process_timestamp) > CutoffDays}
    IN  IF old_jobs # {} THEN log \ old_jobs ELSE log

delete_old_error_logs(log) ==
    LET old_jobs == {r \in log : ElapsedDays(r.error_timestamp) > CutoffDays}
    IN  IF old_jobs # {} THEN log \ old_jobs ELSE log

\* variant for C5: a cycle that processed jobs resets the count
count_idled_reset(count, n) == IF n = 0 THEN count + 1 ELSE 0

\* self._idled_cycle_count += bool(not success_count)
count_idled(count, n) == count + (IF n = 0 THEN 1 ELSE 0)

\* variant for C9: the purge is also made at the end of every cycle
PruneAndPurge ==
    /\ pc = "prune"
    /\ worker_log' = delete_old_worker_logs(worker_log)
    /\ error_log' = delete_old_error_logs(error_log)
    /\ idled_cycle_count' = count_idled(idled_cycle_count, success_count)
    /\ cycles_busy' = cycles_busy + (IF success_count = 0 THEN 0 ELSE 1)
    /\ jobs' = {r \in jobs :
                   ~\E i \in DOMAIN processes_to_run :
                       /\ processes_to_run[i].type = "dj_table"
                       /\ r.table_name = TableName(processes_to_run[i].process)
                       /\ is_invalid_job(r, processes_to_run[i].process)}
    /\ purge_calls' = [i \in DOMAIN purge_calls |->
            IF processes_to_run[i].type = "dj_table"
            THEN purge_calls[i] + 1 ELSE purge_calls[i]]
    /\ pc' = "check"
    /\ UNCHANGED <<run_duration, max_idled_cycle, autoclear_error_patterns,
                   stale_timeout_hours, processes_to_run, pipeline_modules,
                   is_registered, run_start_time>>
    /\ UNCHANGED <<step_index, success_count, now, processlist, key_source, target,
                   registered_worker, registered_process, cycles_raised>>
    /\ UNCHANGED aux_vars

PruneAndReturn ==
    /\ pc = "prune"
    /\ worker_log' = delete_old_worker_logs(worker_log)
    /\ error_log' = delete_old_error_logs(error_log)
    /\ idled_cycle_count' = count_idled(idled_cycle_count, success_count)
    /\ cycles_busy' = cycles_busy + (IF success_count = 0 THEN 0 ELSE 1)
    /\ pc' = "check"
    /\ UNCHANGED <<run_duration, max_idled_cycle, autoclear_error_patterns,
                   stale_timeout_hours, processes_to_run, pipeline_modules,
                   is_registered, run_start_time>>
    /\ UNCHANGED <<step_index, success_count, env_vars, registered_worker,
                   registered_process, cycles_raised, purge_calls>>
    /\ UNCHANGED aux_vars

\* variant for C6: the exception of a cycle leaves run()
CycleRaisePropagates ==
    /\ InCycle
    /\ pc = "cleanup" => pipeline_modules # {}
    /\ \/ UNCHANGED worker_log
       \/ pc = "step" /\ worker_log' = log_process_job(CurrentStep)
    /\ pc' = "raised"
    /\ cycles_raised' = cycles_raised + 1
    /\ UNCHANGED <<worker_vars, step_index, success_count, env_vars,
                   registered_worker, registered_process, error_log,
                   cycles_busy, purge_calls>>
    /\ UNCHANGED aux_vars

\* variant for C8: only the steps are inside the try, the cleanup and the
\* pruning are not
CycleRaiseOutsideTry ==
    /\ InCycle
    /\ pc = "cleanup" => pipeline_modules # {}
    /\ \/ UNCHANGED worker_log
       \/ pc = "step" /\ worker_log' = log_process_job(CurrentStep)
    /\ pc' = IF pc = "step" THEN "check" ELSE "raised"
    /\ cycles_raised' = cycles_raised + 1
    /\ UNCHANGED <<worker_vars, step_index, success_count, env_vars,
                   registered_worker, registered_process, error_log,
                   cycles_busy, purge_calls>>
    /\ UNCHANGED aux_vars

\* variant for C27: the step that raises is given up and the cycle goes on
CycleRaiseSkipsStep ==
    /\ InCycle
    /\ pc = "cleanup" => pipeline_modules # {}
    /\ \/ UNCHANGED worker_log
       \/ pc = "step" /\ worker_log' = log_process_job(CurrentStep)
    /\ IF pc = "step" THEN AfterStep ELSE pc' = "check" /\ UNCHANGED step_index
    /\ cycles_raised' = cycles_raised + 1
    /\ UNCHANGED <<worker_vars, success_count, env_vars,
                   registered_worker, registered_process, error_log,
                   cycles_busy, purge_calls>>
    /\ UNCHANGED aux_vars

\* an exception leaves _run_once: "except Exception as e: logger.error(str(e))",
\* then time.sleep.  At a step, the WorkerLog insert has been made or not.
CycleRaise ==
    /\ InCycle
    /\ pc = "cleanup" => pipeline_modules # {}
    /\ \/ UNCHANGED worker_log
       \/ pc = "step" /\ worker_log' = log_process_job(CurrentStep)
    /\ pc' = "check"
    /\ cycles_raised' = cycles_raised + 1
    /\ UNCHANGED <<worker_vars, step_index, success_count, env_vars,
                   registered_worker, registered_process, error_log,
                   cycles_busy, purge_calls>>
    /\ UNCHANGED aux_vars

(***************************************************************************)
(* _purge_invalid_jobs(), after the loop                                   *)
(***************************************************************************)
\* one iteration of "for process_type, process, _ in self._processes_to_run"
PurgeStep ==
    /\ pc = "purge"
    /\ step_index <= Len(processes_to_run)
    /\ IF CurrentStep.type = "dj_table"
       THEN /\ jobs' = purge_invalid_jobs(jobs, CurrentStep.process)
            /\ purge_calls' = [purge_calls EXCEPT ![step_index] = @ + 1]
       ELSE UNCHANGED <<jobs, purge_calls>>
    /\ step_index' = step_index + 1
    /\ UNCHANGED <<worker_vars, pc, success_count, now, processlist, key_source,
                   target, ledger_vars, cycles_busy, cycles_raised>>
    /\ UNCHANGED aux_vars

\* a query of purge_invalid_jobs fails: nothing catches it in run()
PurgeRaise ==
    /\ pc = "purge"
    /\ step_index <= Len(processes_to_run)
    /\ CurrentStep.type = "dj_table"
    /\ pc' = "raised"
    /\ UNCHANGED <<worker_vars, step_index, success_count, env_vars,
                   ledger_vars, history_vars>>
    /\ UNCHANGED aux_vars

\* logger.info("Stopping DataJoint Worker"): run() returns
RunReturn ==
    /\ pc = "purge"
    /\ step_index > Len(processes_to_run)
    /\ pc' = "returned"
    /\ UNCHANGED <<worker_vars, step_index, success_count, env_vars,
                   ledger_vars, history_vars>>
    /\ UNCHANGED aux_vars

(***************************************************************************)
(* The environment: the clock, and the other worker processes and users    *)
(* of the same pipeline.                                                   *)
(***************************************************************************)
Tick ==
    /\ ~NotRunning
    /\ now < MaxTime
    /\ now' = now + 1
    /\ UNCHANGED <<worker_vars, control_vars, processlist, jobs, key_source,
                   target, ledger_vars, history_vars>>
    /\ UNCHANGED aux_vars

Next ==
    \/ AddStep
    \/ RunEnter
    \/ RunRegisterRaise
    \/ StartCycle
    \/ ExitLoop
    \/ PopulateStep
    \/ FunctionStep
    \/ CleanUp
    \/ PruneAndReturn
    \/ CycleRaise
    \/ PurgeStep
    \/ PurgeRaise
    \/ RunReturn
    \/ Tick

Spec == Init /\ [][Next]_vars

(***************************************************************************)
(* The shutdown purge on its own: a worker constructed with                *)
(* run_duration = 0 whose run() has registered it and found the loop       *)
(* condition false, on a pipeline whose job queue, key sources and tables  *)
(* are in any state the other users of the pipeline may have left.         *)
(***************************************************************************)
PurgeStepLists ==
    {<<[type |-> "dj_table", process |-> "T1", kwargs |-> NoKwargs]>>,
     <<[type |-> "function", process |-> "f", kwargs |-> NoKwargs],
       [type |-> "dj_table", process |-> "T2", kwargs |-> NoKwargs]>>}

JobStatuses == {"reserved", "error", "ignore"}

\* one queue row per (table_name, key) that `status` gives a status
QueueOf(status) ==
    {[table_name |-> TableName(tk[1]), key |-> tk[2], status |-> status[tk],
      error_message |-> IF status[tk] = "error" THEN <<"ValueError">> ELSE <<>>,
      timestamp |-> 0,
      connection_id |-> IF status[tk] = "reserved" THEN "c1" ELSE OwnConnection]
     : tk \in {x \in Tables \X Keys : status[x] # "none"}}

InitPurge ==
    /\ run_duration = 0
    /\ max_idled_cycle = -1
    /\ autoclear_error_patterns = {<<"%", "CustomTimeout", "%">>}
    /\ stale_timeout_hours = DefaultStaleTimeoutHours
    /\ processes_to_run \in PurgeStepLists
    /\ pipeline_modules = {SchemaName}
    /\ is_registered = TRUE
    /\ idled_cycle_count = 0
    /\ run_start_time = 0
    /\ pc = "purge"
    /\ step_index = 1
    /\ success_count = 0
    /\ now = 0
    /\ processlist = {OwnConnection} \cup PeerConnections
    /\ \E status \in [Tables \X Keys -> JobStatuses \cup {"none"}] :
            jobs = QueueOf(status)
    /\ key_source \in [Tables -> SUBSET Keys]
    /\ target \in [Tables -> SUBSET Keys]
    /\ registered_worker = {worker_entry}
    /\ registered_process = Range(process_entries)
    /\ worker_log = {}
    /\ error_log = {}
    /\ cycles_busy = 0
    /\ cycles_raised = 0
    /\ purge_calls = [i \in 1..Len(processes_to_run) |-> 0]
    /\ NoOtherParties

NextPurge ==
    \/ PurgeStep
    \/ PurgeRaise
    \/ RunReturn

SpecPurge == InitPurge /\ [][NextPurge]_vars

(***************************************************************************)
(* Stale reserved jobs: the worker at the _clean_up call of a cycle, or a  *)
(* direct call of handle_stale_reserved_jobs, on queues whose rows have    *)
(* every age and every kind of connection.                                 *)
(***************************************************************************)
StaleTimeouts == {-1, 0, 1, 2}
StaleActions == {"error", "remove", "None", "other"}
RemoveStaleFlags == {"None", "True", "False"}
DeadConnection == "c9"
StaleSlots == {<<"T1", "k1">>, <<"T2", "k1">>}

\* variant for C13: the deprecated argument is not looked at
init_stale_timeout_hours_plain(stale_timeout_hours_arg, remove_flag) ==
    stale_timeout_hours_arg

\* __init__, "Handle backward compatibility"
init_stale_timeout_hours(stale_timeout_hours_arg, remove_flag) ==
    IF remove_flag # "None"
    THEN IF remove_flag = "True" THEN stale_timeout_hours_arg ELSE 0
    ELSE stale_timeout_hours_arg

\* the clock of these queues: half an hour past MaxAgeHours whole hours
StaleClock == MaxAgeHours * SecondsPerHour + SecondsPerHour \div 2

\* the rows one (table, key) may have in the queue
SlotRows(slot) ==
    {[table_name |-> TableName(slot[1]), key |-> slot[2], status |-> "reserved",
      error_message |-> <<>>, timestamp |-> (MaxAgeHours - age) * SecondsPerHour,
      connection_id |-> c]
        : age \in 0..MaxAgeHours,
          c \in {OwnConnection, DeadConnection} \cup PeerConnections}
    \cup
    {[table_name |-> TableName(slot[1]), key |-> slot[2], status |-> st,
      error_message |-> IF st = "error" THEN <<"ValueError">> ELSE <<>>,
      timestamp |-> 0, connection_id |-> DeadConnection]
        : st \in {"error", "ignore"}}

StaleQueues ==
    {UNION {pick[slot] : slot \in StaleSlots} :
        pick \in [StaleSlots -> {{}} \cup {{r} : r \in UNION {SlotRows(x) : x \in StaleSlots}}]}

InitStale ==
    /\ run_duration = -1
    /\ max_idled_cycle = -1
    /\ autoclear_error_patterns = {<<"%", "CustomTimeout", "%">>}
    /\ remove_stale_reserved_jobs \in RemoveStaleFlags
    /\ \E arg \in StaleTimeouts :
          stale_timeout_hours = init_stale_timeout_hours(arg, remove_stale_reserved_jobs)
    /\ processes_to_run = <<[type |-> "dj_table", process |-> "T1", kwargs |-> NoKwargs]>>
    /\ pipeline_modules = {SchemaName}
    /\ is_registered = TRUE
    /\ pc \in {"idle", "cleanup"}
    /\ stale_action \in IF pc = "idle" THEN StaleActions ELSE {"error"}
    /\ idled_cycle_count = IF pc = "idle" THEN None ELSE 0
    /\ run_start_time = IF pc = "idle" THEN None ELSE 0
    /\ step_index = IF pc = "idle" THEN 0 ELSE 2
    /\ success_count = 0
    /\ now = StaleClock
    /\ processlist \in {{OwnConnection}, {OwnConnection} \cup PeerConnections}
    /\ jobs \in {q \in StaleQueues :
                    \A r1, r2 \in q :
                        (r1.table_name = r2.table_name /\ r1.key = r2.key) => r1 = r2}
    /\ key_source = [t \in Tables |-> Keys]
    /\ target = [t \in Tables |-> {}]
    /\ registered_worker = {worker_entry}
    /\ registered_process = Range(process_entries)
    /\ worker_log = {}
    /\ error_log = {}
    /\ cycles_busy = 0
    /\ cycles_raised = 0
    /\ purge_calls = [i \in 1..Len(processes_to_run) |-> 0]
    /\ deployments = <<>>
    /\ writers = <<>>
    /\ NoCall

\* a direct call handle_stale_reserved_jobs(pipeline_module,
\* stale_timeout_hours, action) that returns
HandleStaleCall ==
    /\ pc = "idle"
    /\ stale_timeout_hours <= 0 \/ stale_action \in {"error", "remove", "None"}
    /\ jobs' = handle_stale_reserved_jobs(jobs, stale_timeout_hours, stale_action)
    /\ pc' = "returned"
    /\ UNCHANGED <<worker_vars, step_index, success_count, now, processlist,
                   key_source, target, ledger_vars, history_vars, aux_vars>>

\* "raise ValueError(f"Invalid action: ...")", reached after the queries
HandleStaleInvalidAction ==
    /\ pc = "idle"
    /\ stale_timeout_hours > 0
    /\ stale_action \notin {"error", "remove", "None"}
    /\ pc' = "raised"
    /\ UNCHANGED <<worker_vars, step_index, success_count, env_vars,
                   ledger_vars, history_vars, aux_vars>>

NextStale ==
    \/ CleanUp
    \/ HandleStaleCall
    \/ HandleStaleInvalidAction

SpecStale == InitStale /\ [][NextStale]_vars

(***************************************************************************)
(* Registration by several processes.  Each deployment is a worker object  *)
(* of its own process; all use the same worker_name and the same worker    *)
(* schema.  register_worker is taken statement by statement: the flag      *)
(* test, the fingerprint query, and the three statements inside            *)
(* "with RegisteredWorker.connection.transaction".                         *)
(*                                                                         *)
(* The database: the statements of a transaction are held back and become  *)
(* visible together at the commit.  Two transactions that write the rows   *)
(* of one worker_name are serialised by the row locks and the primary key: *)
(* the one that finds the rows changed since its delete fails (duplicate   *)
(* key, deadlock or lock wait timeout) and is rolled back.                 *)
(***************************************************************************)
DeploymentIds == {"a", "b"}
KwargsChoices == {NoKwargs, <<"max_calls">>}
DeployLists ==
    {<<[type |-> "dj_table", process |-> "T1", kwargs |-> kw]>> : kw \in KwargsChoices}
    \cup {<<[type |-> "dj_table", process |-> "T1", kwargs |-> NoKwargs],
            [type |-> "function", process |-> "f", kwargs |-> NoKwargs]>>}
DeployDurations == {-1, 0}
AtRest == {"idle", "loop", "raised"}

\* DataJointWorker(worker_name, ..., run_duration=...) followed by add_step
\* for every step of `steps`
new_deployment(steps, duration) ==
    [processes_to_run |-> steps, run_duration |-> duration,
     is_registered |-> FALSE, pc |-> "idle", seen |-> {}, txn |-> <<>>]

worker_kwargs_of(dep) ==
    [run_duration |-> dep.run_duration,
     max_idled_cycle |-> -1,
     autoclear_error_patterns |-> {},
     stale_timeout_hours |-> DefaultStaleTimeoutHours]

\* the rows of the worker_name in RegisteredWorker
name_rows(workers) == {r \in workers : r.worker_name = WorkerName}

\* variant for C14: the fingerprint query finds nothing
fingerprint_present_never(workers, steps) == FALSE

\* RegisteredWorker & {"worker_name": ..., "worker_config_uuid": ...}
fingerprint_present(workers, steps) ==
    \E r \in workers : /\ r.worker_name = WorkerName
                       /\ r.worker_config_uuid = worker_config_uuid_of(steps)

\* one statement on the ledger <<RegisteredWorker rows, Process rows>>;
\* the delete of a master row takes its part rows with it
apply_statement(ledger, op) ==
    CASE op.kind = "delete" ->
            <<{r \in ledger[1] : r.worker_name # op.worker_name},
              {r \in ledger[2] : r.worker_name # op.worker_name}>>
      [] op.kind = "insert1" -> <<ledger[1] \cup {op.row}, ledger[2]>>
      [] op.kind = "insert" -> <<ledger[1], ledger[2] \cup op.rows>>

RECURSIVE apply_statements(_, _)
apply_statements(ledger, ops) ==
    IF ops = <<>> THEN ledger
    ELSE apply_statements(apply_statement(ledger, Head(ops)), Tail(ops))

\* variant for C15: no transaction, every statement is committed as it is made
statement_autocommit(ledger, txn, op) == <<apply_statement(ledger, op), txn>>

\* a statement inside the transaction: held back until the commit
statement(ledger, txn, op) == <<ledger, Append(txn, op)>>

\* worker_name is the primary key of RegisteredWorker
primary_key_holds(workers) ==
    \A r1, r2 \in workers : r1.worker_name = r2.worker_name => r1 = r2

registry_frame == <<worker_vars, control_vars, processlist, jobs, key_source, target,
                    worker_log, error_log, history_vars,
                    remove_stale_reserved_jobs, stale_action, writers, call_vars>>

InitRegistry ==
    /\ run_duration = -1
    /\ max_idled_cycle = -1
    /\ autoclear_error_patterns = {<<"%", "CustomTimeout", "%">>}
    /\ stale_timeout_hours = DefaultStaleTimeoutHours
    /\ processes_to_run = <<>>
    /\ pipeline_modules = {}
    /\ is_registered = FALSE
    /\ idled_cycle_count = None
    /\ run_start_time = None
    /\ pc = "idle"
    /\ step_index = 0
    /\ success_count = 0
    /\ now = 0
    /\ processlist = {OwnConnection}
    /\ jobs = {}
    /\ key_source = [t \in Tables |-> InitialKeys]
    /\ target = [t \in Tables |-> {}]
    /\ registered_worker = {}
    /\ registered_process = {}
    /\ worker_log = {}
    /\ error_log = {}
    /\ cycles_busy = 0
    /\ cycles_raised = 0
    /\ purge_calls = <<>>
    /\ remove_stale_reserved_jobs = "None"
    /\ stale_action = "error"
    /\ writers = <<>>
    /\ NoCall
    /\ deployments \in [DeploymentIds ->
            {new_deployment(steps, duration) :
                steps \in DeployLists, duration \in DeployDurations}]

\* the process is restarted with a new worker object: other steps or
\* arguments, another run_duration, or the same ones
Deploy(d) ==
    /\ deployments[d].pc \in {"loop", "raised"}
    /\ \E steps \in DeployLists, duration \in DeployDurations :
          deployments' = [deployments EXCEPT ![d] = new_deployment(steps, duration)]
    /\ UNCHANGED <<registry_frame, now, registered_worker, registered_process>>

\* run() returns; the same worker object may be run again
RunReturns(d) ==
    /\ deployments[d].pc = "loop"
    /\ deployments' = [deployments EXCEPT ![d].pc = "idle"]
    /\ UNCHANGED <<registry_frame, now, registered_worker, registered_process>>

\* run(): register_worker(): "if self._is_registered: return"
RegisterFlagReturn(d) ==
    /\ deployments[d].pc = "idle"
    /\ deployments[d].is_registered
    /\ deployments' = [deployments EXCEPT ![d].pc = "loop"]
    /\ UNCHANGED <<registry_frame, now, registered_worker, registered_process>>

\* the fingerprint query: "if RegisteredWorker & {...}: return", else the
\* transaction is entered
RegisterCheck(d) ==
    /\ deployments[d].pc = "idle"
    /\ ~deployments[d].is_registered
    /\ deployments' = [deployments EXCEPT ![d].pc =
            IF fingerprint_present(registered_worker, deployments[d].processes_to_run)
            THEN "loop" ELSE "delete"]
    /\ UNCHANGED <<registry_frame, now, registered_worker, registered_process>>

\* one statement `op` of the transaction of d, which then stands at `next`
TxnStatement(d, op, next) ==
    LET result == statement(<<registered_worker, registered_process>>,
                            deployments[d].txn, op)
    IN  /\ primary_key_holds(result[1][1])
        /\ registered_worker' = result[1][1]
        /\ registered_process' = result[1][2]
        /\ deployments' = [deployments EXCEPT
                ![d].txn = result[2],
                ![d].pc = next,
                ![d].seen = IF op.kind = "delete"
                            THEN name_rows(registered_worker) ELSE @]
        /\ UNCHANGED <<registry_frame, now>>

\* (RegisteredWorker & {"worker_name": self.name}).delete()
TxnDelete(d) ==
    /\ deployments[d].pc = "delete"
    /\ TxnStatement(d, [kind |-> "delete", worker_name |-> WorkerName], "insert1")

\* RegisteredWorker.insert1(worker_entry)
TxnInsert1(d) ==
    /\ deployments[d].pc = "insert1"
    /\ TxnStatement(d, [kind |-> "insert1",
                        row |-> worker_entry_of(deployments[d].processes_to_run,
                                                worker_kwargs_of(deployments[d]), now)],
                    "insert")

\* RegisteredWorker.Process.insert(process_entries)
TxnInsert(d) ==
    /\ deployments[d].pc = "insert"
    /\ TxnStatement(d, [kind |-> "insert",
                        rows |-> Range(process_entries_of(deployments[d].processes_to_run))],
                    "commit")

\* the transaction commits; "self._is_registered = True"
TxnCommit(d) ==
    /\ deployments[d].pc = "commit"
    /\ name_rows(registered_worker) = deployments[d].seen
    /\ LET result == apply_statements(<<registered_worker, registered_process>>,
                                      deployments[d].txn)
       IN  /\ registered_worker' = result[1]
           /\ registered_process' = result[2]
    /\ deployments' = [deployments EXCEPT ![d].pc = "loop", ![d].txn = <<>>,
                                          ![d].seen = {},
                                          ![d].is_registered = TRUE]
    /\ UNCHANGED <<registry_frame, now>>

\* a statement or the commit fails: the transaction is cancelled and the
\* exception leaves register_worker and run()
TxnRaise(d) ==
    /\ deployments[d].pc \in {"delete", "insert1", "insert", "commit"}
    /\ deployments' = [deployments EXCEPT ![d].pc = "raised", ![d].txn = <<>>,
                                          ![d].seen = {}]
    /\ UNCHANGED <<registry_frame, now, registered_worker, registered_process>>

RegistryTick ==
    /\ now < MaxTime
    /\ now' = now + 1
    /\ UNCHANGED <<registry_frame, deployments, registered_worker, registered_process>>

RegistryStep(d) ==
    \/ Deploy(d)
    \/ RunReturns(d)
    \/ RegisterFlagReturn(d)
    \/ RegisterCheck(d)
    \/ TxnDelete(d)
    \/ TxnInsert1(d)
    \/ TxnInsert(d)
    \/ TxnCommit(d)
    \/ TxnRaise(d)

\* the processes run independently
NextRegistry ==
    \/ \E d \in DeploymentIds : RegistryStep(d)
    \/ RegistryTick

SpecRegistry == InitRegistry /\ [][NextRegistry]_vars

\* one process at a time is inside register_worker
Alone(d) == \A e \in DeploymentIds \ {d} : deployments[e].pc \in AtRest

NextRegistrySeq ==
    \/ \E d \in DeploymentIds :
          \/ Alone(d) /\ Deploy(d)
          \/ Alone(d) /\ RunReturns(d)
          \/ Alone(d) /\ RegisterFlagReturn(d)
          \/ Alone(d) /\ RegisterCheck(d)
          \/ Alone(d) /\ TxnDelete(d)
          \/ Alone(d) /\ TxnInsert1(d)
          \/ Alone(d) /\ TxnInsert(d)
          \/ Alone(d) /\ TxnCommit(d)
          \/ Alone(d) /\ TxnRaise(d)
    \/ RegistryTick

SpecRegistrySeq == InitRegistry /\ [][NextRegistrySeq]_vars

(***************************************************************************)
(* ErrorLog upserts by several worker processes.  log_exception and        *)
(* log_error_job read the row of (process, key_hash) and then insert or    *)
(* update; no lock is held between the two statements, so the statements   *)
(* of two processes interleave.  (process, key_hash) is the primary key:   *)
(* an insert1 of a pair that is present raises a duplicate error.          *)
(***************************************************************************)
WriterIds == {"w1", "w2"}
JobErrorMessages == {<<"CustomTimeout">>, <<"CustomTimeout", "again">>}
LoggedTexts == {"boom", "bang"}

\* the entries a worker may be about to log at this time: of an exception of
\* a function step that carries a key, or of an error job its cleanup clears
LogEntries ==
    {exception_entry([key |-> k], "f", str(Exception(c, text))) :
        k \in ExceptionKeys, c \in ExceptionClasses, text \in LoggedTexts}
    \cup
    {error_job_entry(ErrorJob("T1", k, msg)) : k \in Keys, msg \in JobErrorMessages}

NoEntry == exception_entry([key |-> "k1"], "f", str(Exception("ValueError", "")))

errorlog_frame == <<worker_vars, control_vars, processlist, jobs, key_source, target,
                    registered_worker, registered_process, worker_log, history_vars,
                    remove_stale_reserved_jobs, stale_action, deployments, call_vars>>

InitErrorLog ==
    /\ run_duration = -1
    /\ max_idled_cycle = -1
    /\ autoclear_error_patterns = {<<"%", "CustomTimeout", "%">>}
    /\ stale_timeout_hours = DefaultStaleTimeoutHours
    /\ processes_to_run = <<>>
    /\ pipeline_modules = {}
    /\ is_registered = FALSE
    /\ idled_cycle_count = None
    /\ run_start_time = None
    /\ pc = "idle"
    /\ step_index = 0
    /\ success_count = 0
    /\ now = 0
    /\ processlist = {OwnConnection}
    /\ jobs = {}
    /\ key_source = [t \in Tables |-> InitialKeys]
    /\ target = [t \in Tables |-> {}]
    /\ registered_worker = {}
    /\ registered_process = {}
    /\ worker_log = {}
    /\ error_log = {}
    /\ cycles_busy = 0
    /\ cycles_raised = 0
    /\ purge_calls = <<>>
    /\ remove_stale_reserved_jobs = "None"
    /\ stale_action = "error"
    /\ deployments = <<>>
    /\ NoCall
    /\ writers = [w \in WriterIds |-> [pc |-> "idle", entry |-> NoEntry]]

\* the entry is built and the query for its pair is made
LogRead(w) ==
    /\ writers[w].pc = "idle"
    /\ \E entry \in LogEntries :
          writers' = [writers EXCEPT ![w] =
                [pc |-> IF entry_present(error_log, entry) THEN "update" ELSE "insert",
                 entry |-> entry]]
    /\ UNCHANGED <<errorlog_frame, now, error_log>>

\* cls.insert1(entry), the pair still absent
LogInsert(w) ==
    /\ writers[w].pc = "insert"
    /\ ~entry_present(error_log, writers[w].entry)
    /\ error_log' = insert1(error_log, writers[w].entry)
    /\ writers' = [writers EXCEPT ![w].pc = "done"]
    /\ UNCHANGED <<errorlog_frame, now>>

\* cls.insert1(entry), the pair inserted by another process since the query:
\* the primary key rejects the row and insert1 raises
LogInsertDuplicate(w) ==
    /\ writers[w].pc = "insert"
    /\ entry_present(error_log, writers[w].entry)
    /\ writers' = [writers EXCEPT ![w].pc = "raised"]
    /\ UNCHANGED <<errorlog_frame, now, error_log>>

\* cls.update1(entry)
LogUpdate(w) ==
    /\ writers[w].pc = "update"
    /\ entry_present(error_log, writers[w].entry)
    /\ error_log' = update1(error_log, writers[w].entry)
    /\ writers' = [writers EXCEPT ![w].pc = "done"]
    /\ UNCHANGED <<errorlog_frame, now>>

\* the call is over; the worker goes on and may log again
LogReturn(w) ==
    /\ writers[w].pc \in {"done", "raised"}
    /\ writers' = [writers EXCEPT ![w].pc = "idle"]
    /\ UNCHANGED <<errorlog_frame, now, error_log>>

ErrorLogTick ==
    /\ now < MaxTime
    /\ now' = now + 1
    /\ UNCHANGED <<errorlog_frame, error_log, writers>>

NextErrorLog ==
    \/ \E w \in WriterIds :
          \/ LogRead(w)
          \/ LogInsert(w)
          \/ LogInsertDuplicate(w)
          \/ LogUpdate(w)
          \/ LogReturn(w)
    \/ ErrorLogTick

SpecErrorLog == InitErrorLog /\ [][NextErrorLog]_vars

(***************************************************************************)
(* SpecCleanUp: one _clean_up call followed statement by statement, on a   *)
(* queue that holds rows of every status, while another worker's populate  *)
(* leaves error rows in the same jobs table.                               *)
(***************************************************************************)
CleanUpSlots == {<<"T1", "k1">>, <<"T1", "k2">>}
CleanUpStatuses == {"error", "reserved", "ignore"}
\* messages matching a generic pattern, the autoclear pattern, both, none
CleanUpMessages ==
    {<<"Deadlock">>, <<"InternalError: (1205", ", lock wait">>,
     <<"in make: ", "InternalError: (1205">>, <<"CustomTimeout">>,
     <<"CustomTimeout", " after ", "Deadlock">>, <<"ValueError">>}
\* messages of the errors the other worker's make() raises
PeerMessages == {<<"CustomTimeout">>}

CleanUpRows(slot) ==
    {[table_name |-> slot[1], key |-> slot[2], status |-> st,
      error_message |-> m, timestamp |-> 0, connection_id |-> OwnConnection] :
        st \in CleanUpStatuses, m \in CleanUpMessages}

CleanUpQueues ==
    {UNION {pick[slot] : slot \in CleanUpSlots} :
        pick \in [CleanUpSlots -> {{}} \cup {{r} : r \in UNION {CleanUpRows(x) : x \in CleanUpSlots}}]}

InitCleanUp ==
    /\ run_duration = -1
    /\ max_idled_cycle = -1
    /\ autoclear_error_patterns = {<<"%", "CustomTimeout", "%">>}
    /\ stale_timeout_hours = DefaultStaleTimeoutHours
    /\ processes_to_run = <<[type |-> "dj_table", process |-> "T1", kwargs |-> NoKwargs]>>
    /\ pipeline_modules = {SchemaName}
    /\ is_registered = TRUE
    /\ idled_cycle_count = 0
    /\ run_start_time = 0
    /\ pc = "cleanup"
    /\ step_index = 2
    /\ success_count = 0
    /\ now = 0
    /\ processlist = {OwnConnection} \cup PeerConnections
    /\ jobs \in {q \in CleanUpQueues :
                    \A r1, r2 \in q :
                        (r1.table_name = r2.table_name /\ r1.key = r2.key) => r1 = r2}
    /\ key_source = [t \in Tables |-> Keys]
    /\ target = [t \in Tables |-> {}]
    /\ registered_worker = {worker_entry}
    /\ registered_process = Range(process_entries)
    /\ worker_log = {}
    /\ error_log = {}
    /\ cycles_busy = 0
    /\ cycles_raised = 0
    /\ purge_calls = [i \in 1..Len(processes_to_run) |-> 0]
    /\ NoOtherParties

cleanup_frame == <<worker_vars, step_index, success_count, now, processlist,
                   key_source, target, registered_worker, registered_process,
                   worker_log, cycles_busy, purge_calls,
                   remove_stale_reserved_jobs, stale_action, deployments, writers,
                   populate_handler, last_emit, add_step_result>>

\* "(jobs & 'status = "error"' & [generic patterns]).delete()"
CleanUpGeneric ==
    /\ pc = "cleanup"
    /\ cleaning.stage = "none"
    /\ jobs' = clear_generic_errors(jobs)
    /\ cleaning' = [cleaning EXCEPT !.stage = "generic", !.before = jobs]
    /\ UNCHANGED <<pc, error_log, cycles_raised, cleanup_frame>>

\* "with ...connection.transaction:" is entered and
\* additional_error_query.fetch(as_dict=True) is made
CleanUpFetch ==
    /\ pc = "cleanup"
    /\ cleaning.stage = "generic"
    /\ cleaning' = [cleaning EXCEPT !.stage = "transaction",
                                    !.fetched = SetToSeq(additional_error_query(jobs)),
                                    !.log = error_log]
    /\ UNCHANGED <<pc, jobs, error_log, cycles_raised, cleanup_frame>>

\* one iteration of the for loop: ErrorLog.log_error_job(error_entry, ...),
\* a write of the open transaction
CleanUpLog ==
    /\ pc = "cleanup"
    /\ cleaning.stage = "transaction"
    /\ cleaning.fetched # <<>>
    /\ cleaning' = [cleaning EXCEPT !.fetched = Tail(@),
                                    !.log = log_error_job(@, Head(cleaning.fetched))]
    /\ UNCHANGED <<pc, jobs, error_log, cycles_raised, cleanup_frame>>

\* "additional_error_query.delete()": the DELETE statement restricts the
\* jobs table as it stands when the statement runs
CleanUpDelete ==
    /\ pc = "cleanup"
    /\ cleaning.stage = "transaction"
    /\ cleaning.fetched = <<>>
    /\ cleaning' = [cleaning EXCEPT !.stage = "deleted",
                                    !.deleted = additional_error_query(jobs)]
    /\ UNCHANGED <<pc, jobs, error_log, cycles_raised, cleanup_frame>>

\* the with block is left: the writes of the transaction are committed
CleanUpCommit ==
    /\ pc = "cleanup"
    /\ cleaning.stage = "deleted"
    /\ error_log' = cleaning.log
    /\ jobs' = jobs \ cleaning.deleted
    /\ cleaning' = [cleaning EXCEPT !.stage = "committed"]
    /\ UNCHANGED <<pc, cycles_raised, cleanup_frame>>

\* a statement of the with block raises: the transaction is cancelled and
\* the exception leaves _clean_up and _run_once
CleanUpRaise ==
    /\ pc = "cleanup"
    /\ cleaning.stage \in {"transaction", "deleted"}
    /\ cleaning' = [cleaning EXCEPT !.stage = "cancelled"]
    /\ pc' = "check"
    /\ cycles_raised' = cycles_raised + 1
    /\ UNCHANGED <<jobs, error_log, cleanup_frame>>

\* handle_stale_reserved_jobs(pipeline_module, stale_timeout_hours,
\* action="error"), and _clean_up returns
CleanUpStale ==
    /\ pc = "cleanup"
    /\ cleaning.stage = "committed"
    /\ jobs' = handle_stale_reserved_jobs(jobs, stale_timeout_hours, "error")
    /\ cleaning' = [cleaning EXCEPT !.stage = "done"]
    /\ pc' = "prune"
    /\ UNCHANGED <<error_log, cycles_raised, cleanup_frame>>

\* the populate of a worker on another connection: a make() fails and
\* jobs.error(...) commits an error row for a key that has no row
PeerError ==
    /\ pc = "cleanup"
    /\ \E slot \in CleanUpSlots, m \in PeerMessages :
          /\ ~\E r \in jobs : r.table_name = slot[1] /\ r.key = slot[2]
          /\ jobs' = jobs \cup
                {[table_name |-> slot[1], key |-> slot[2], status |-> "error",
                  error_message |-> m, timestamp |-> now,
                  connection_id |-> CHOOSE c \in PeerConnections : TRUE]}
    /\ UNCHANGED <<pc, cleaning, error_log, cycles_raised, cleanup_frame>>

NextCleanUp ==
    \/ CleanUpGeneric
    \/ CleanUpFetch
    \/ CleanUpLog
    \/ CleanUpDelete
    \/ CleanUpCommit
    \/ CleanUpRaise
    \/ CleanUpStale
    \/ PeerError

SpecCleanUp == InitCleanUp /\ [][NextCleanUp]_vars

(***************************************************************************)
(* SpecSteps: a worker constructed with or without notifiers; add_step     *)
(* with every kind of target and notify_on, register_worker() called       *)
(* directly, and the populate log records PopulateHandler.emit is given.   *)
(***************************************************************************)
NotifyOnChoices == {NoNotifyOn} \cup SUBSET NotifyStrings
LogStatuses == {"START", "SUCCESS", "ERROR"}
\* status.lower()
status_lower(status) ==
    CASE status = "START" -> "start"
      [] status = "SUCCESS" -> "success"
      [] status = "ERROR" -> "error"

InitSteps ==
    /\ run_duration = -1
    /\ max_idled_cycle = -1
    /\ autoclear_error_patterns = {<<"%", "CustomTimeout", "%">>}
    /\ stale_timeout_hours = DefaultStaleTimeoutHours
    /\ processes_to_run = <<>>
    /\ pipeline_modules = {}
    /\ is_registered = FALSE
    /\ idled_cycle_count = None
    /\ run_start_time = None
    /\ pc = "idle"
    /\ step_index = 0
    /\ success_count = 0
    /\ now = 0
    /\ processlist = {OwnConnection}
    /\ jobs = {}
    /\ key_source = [t \in Tables |-> InitialKeys]
    /\ target = [t \in Tables |-> {}]
    /\ registered_worker = {}
    /\ registered_process = {}
    /\ worker_log = {}
    /\ error_log = {}
    /\ cycles_busy = 0
    /\ cycles_raised = 0
    /\ purge_calls = <<>>
    /\ remove_stale_reserved_jobs = "None"
    /\ stale_action = "error"
    /\ deployments = <<>>
    /\ writers = <<>>
    /\ cleaning = NoCleaning
    /\ \E notifiers_given \in BOOLEAN :
          populate_handler = [NoHandler EXCEPT !.configured = notifiers_given]
    /\ last_emit = NoEmit
    /\ add_step_result = NoAddStep

\* worker(process, notify_on=...) or worker.add_step(...) with any target
AddStepCall ==
    \E callable \in AnyTargets, notify_on \in NotifyOnChoices :
        \E position_ \in {None} \cup (0..Len(processes_to_run)) :
            add_step(callable, position_, notify_on)

\* worker.register_worker() called on its own
RegisterCall ==
    /\ NotRunning
    /\ is_registered' = register_worker[1]
    /\ registered_worker' = register_worker[2]
    /\ registered_process' = register_worker[3]
    /\ UNCHANGED <<run_duration, max_idled_cycle, autoclear_error_patterns,
                   stale_timeout_hours, processes_to_run, pipeline_modules,
                   idled_cycle_count, run_start_time>>
    /\ UNCHANGED <<control_vars, env_vars, worker_log, error_log, history_vars, aux_vars>>

\* PopulateHandler.emit(record) for the record "Making|Success making|Error
\* making {key} -> {full_table_name}": the notify calls it makes
emit(handler, status, key, full_table_name) ==
    IF handler.tables_to_notify[full_table_name][status_lower(status)]
    THEN {}
    ELSE {[notifier |-> n, schema_name |-> SchemaName, table_name |-> full_table_name,
           key |-> key, status |-> status] : n \in Notifiers}

\* a populate of table t logs one of its three records while the handler is
\* on the logger
Emit ==
    /\ populate_handler.configured
    /\ \E t \in Tables, status \in LogStatuses, key \in Keys :
          last_emit' = [status |-> status, full_table_name |-> t, key |-> key,
                        watched |-> populate_handler.tables_to_notify[t][status_lower(status)],
                        calls |-> emit(populate_handler, status, key, t)]
    /\ UNCHANGED <<worker_vars, control_vars, env_vars, ledger_vars, history_vars>>
    /\ UNCHANGED <<remove_stale_reserved_jobs, stale_action, deployments, writers,
                   cleaning, populate_handler, add_step_result>>

NextSteps ==
    \/ AddStepCall
    \/ RegisterCall
    \/ Emit

SpecSteps == InitSteps /\ [][NextSteps]_vars

(***************************************************************************)
(* SpecPrune: the two delete_old_logs calls at the end of a cycle, on      *)
(* ledgers that hold records of every age around the cutoff.               *)
(***************************************************************************)
\* ages in seconds: new, 30 days, one second short of 31 days, 31 days, 40 days
PruneAges ==
    {0, CutoffDays * SecondsPerDay, (CutoffDays + 1) * SecondsPerDay - 1,
     (CutoffDays + 1) * SecondsPerDay, (CutoffDays + 10) * SecondsPerDay}
PruneClock == (CutoffDays + 10) * SecondsPerDay

PruneWorkerLogs ==
    {[process |-> <<"f">>, process_timestamp |-> PruneClock - age,
      worker_name |-> WorkerName] : age \in PruneAges}

PruneErrorLogs ==
    {[process |-> <<"f">>, key_hash |-> dict_to_uuid([error_time |-> PruneClock - age]),
      error_timestamp |-> PruneClock - age, key |-> [error_time |-> PruneClock - age],
      error_message |-> <<"ValueError", ": ", "boom">>] : age \in PruneAges}

InitPrune ==
    /\ run_duration = -1
    /\ max_idled_cycle = -1
    /\ autoclear_error_patterns = {<<"%", "CustomTimeout", "%">>}
    /\ stale_timeout_hours = DefaultStaleTimeoutHours
    /\ processes_to_run = <<[type |-> "function", process |-> "f", kwargs |-> NoKwargs]>>
    /\ pipeline_modules = {}
    /\ is_registered = TRUE
    /\ idled_cycle_count = 0
    /\ run_start_time = PruneClock
    /\ pc = "prune"
    /\ step_index = 2
    /\ success_count = 0
    /\ now = PruneClock
    /\ processlist = {OwnConnection}
    /\ jobs = {}
    /\ key_source = [t \in Tables |-> InitialKeys]
    /\ target = [t \in Tables |-> {}]
    /\ registered_worker = {worker_entry}
    /\ registered_process = Range(process_entries)
    /\ worker_log \in SUBSET PruneWorkerLogs
    /\ error_log \in SUBSET PruneErrorLogs
    /\ cycles_busy = 0
    /\ cycles_raised = 0
    /\ purge_calls = [i \in 1..Len(processes_to_run) |-> 0]
    /\ NoOtherParties

NextPrune == PruneAndReturn

SpecPrune == InitPrune /\ [][NextPrune]_vars

(***************************************************************************)
(* Properties                                                              *)
(***************************************************************************)
InRun == pc \in {"check", "step", "cleanup", "prune", "purge"}

\* the stop condition as the specification words it
StopCondition ==
    \/ run_duration >= 0 /\ now - run_start_time >= run_duration
    \/ max_idled_cycle > 0 /\ idled_cycle_count > max_idled_cycle

TableStep(t) == [type |-> "dj_table", process |-> t, kwargs |-> NoKwargs]

C3_DeadlineDoesNotCutCycle ==
    [][ /\ (now' # now) =>
              (pc' = pc /\ step_index' = step_index /\ success_count' = success_count)
        /\ (InCycle /\ ~InCycle') =>
              \/ pc = "prune" /\ pc' = "check" /\ cycles_raised' = cycles_raised
              \/ pc' = "check" /\ cycles_raised' = cycles_raised + 1
        /\ (pc = "step" /\ pc' = "step") => step_index' \in {step_index, step_index + 1}
        /\ (pc = "step" /\ pc' = "cleanup") => step_index = Len(processes_to_run)
        /\ (pc' = "prune" /\ pc # "prune") => pc = "cleanup"
        /\ (pc = "check" /\ run_duration >= 0 /\ now - run_start_time >= run_duration)
              => ~InCycle' ]_vars

C3_Witness ==
    /\ pc = "prune"
    /\ Len(processes_to_run) = 2
    /\ run_duration > 0
    /\ now - run_start_time >= run_duration

\* C4: with max_idled_cycle = M > 0 and run_duration < 0, a run all of whose
\* cycles returned zero has started at most M + 1 cycles, and exactly M + 1
\* when the loop has been left.
C4_IdleBudget ==
    (InRun \/ pc = "returned") /\ max_idled_cycle > 0 /\ run_duration < 0
        /\ cycles_busy = 0 /\ cycles_raised = 0
    => /\ CyclesStarted <= max_idled_cycle + 1
       /\ pc \in {"purge", "returned"} => CyclesStarted = max_idled_cycle + 1

C4_Witness ==
    /\ pc = "returned"
    /\ max_idled_cycle > 0
    /\ run_duration < 0
    /\ cycles_busy = 0
    /\ cycles_raised = 0
    /\ CyclesStarted = max_idled_cycle + 1

C6_CycleExceptionCaught ==
    [][ /\ (InCycle /\ cycles_raised' # cycles_raised) =>
              /\ pc' = "check"
              /\ UNCHANGED <<run_duration, max_idled_cycle, run_start_time,
                             idled_cycle_count, processes_to_run>>
        /\ (InCycle /\ ~InCycle') => pc' = "check" ]_vars

C6_Witness ==
    /\ InCycle
    /\ cycles_raised >= 1

\* C7 as claimed: a cycle in which _run_once raises adds one to
\* idled_cycle_count.
C7_RaisedCycleCountsAsIdle ==
    [][ (InCycle /\ cycles_raised' = cycles_raised + 1) =>
            idled_cycle_count' = idled_cycle_count + 1 ]_vars

\* C8 as claimed: run() never raises to its caller.
C8_Original == pc # "raised"

\* C8 as amended: run() raises to its caller only out of register_worker,
\* before the loop, or out of the purge, after it; never out of a cycle.
C8_RaisesOnlyOutsideLoop ==
    [][ (pc' = "raised" /\ pc # "raised") => (NotRunning \/ pc = "purge") ]_vars

C8_Witness ==
    /\ pc = "returned"
    /\ cycles_raised >= 1

\* C9: no purge_invalid_jobs call is made while the loop runs; when run()
\* returns, exactly one call has been made for every table step and none for
\* a function step; during the purge the steps before the current one have
\* had theirs.
C9_PurgeOncePerStepAfterLoop ==
    /\ pc \in {"check", "step", "cleanup", "prune"} =>
          \A i \in DOMAIN purge_calls : purge_calls[i] = 0
    /\ pc \in {"purge", "returned"} =>
          /\ DOMAIN purge_calls = DOMAIN processes_to_run
          /\ \A i \in DOMAIN purge_calls :
                purge_calls[i] =
                    IF processes_to_run[i].type = "dj_table"
                       /\ (pc = "returned" \/ i < step_index)
                    THEN 1 ELSE 0

C9_Witness ==
    /\ pc = "returned"
    /\ Len(processes_to_run) = 2
    /\ CyclesStarted >= 2
    /\ \E i \in DOMAIN purge_calls : purge_calls[i] = 1
    /\ \E i \in DOMAIN purge_calls : purge_calls[i] = 0

\* C10: the purge of a table step removes exactly the queue rows of that
\* table whose key is not in the table's key_source or is in the table; all
\* other rows stay as they are and no row is added.
C10_PurgeRemovesExactlyInvalid ==
    [][ (pc = "purge" /\ step_index' = step_index + 1
            /\ CurrentStep.type = "dj_table") =>
          LET t == CurrentStep.process IN
          /\ jobs' \subseteq jobs
          /\ \A r \in jobs :
                (r \notin jobs') <=>
                    /\ r.table_name = t
                    /\ (r.key \notin key_source[t] \/ r.key \in target[t]) ]_vars

C10_Witness ==
    /\ pc = "purge"
    /\ step_index = 2
    /\ processes_to_run[1].process = "T1"
    /\ purge_calls[1] = 1
    /\ key_source["T1"] = {"k1"}
    /\ target["T1"] = {}
    /\ \E r \in jobs : r.table_name = "T1" /\ r.key = "k1" /\ r.status = "reserved"
    /\ \E r \in jobs : r.table_name = "T2" /\ r.key \in target["T2"]

\* C20 as claimed: the ErrorLog row of a function step that raised
\* ValueError("boom") without a key has the error_message "ValueError: boom"
\* (and a key that is the single field error_time).
C20_MessageNamesExceptionClass ==
    \A r \in error_log :
        DOMAIN r.key = {"error_time"} =>
            r.error_message = <<"ValueError", ": ", "boom">>

\* the steps on which stale reserved jobs are handled: the cleanup of a
\* cycle (action "error") or a direct call that returns
CleanupPass == pc = "cleanup" /\ pc' = "prune"
DirectCall(action) == pc = "idle" /\ pc' = "returned" /\ stale_action = action

WholeHours(r) == (now - r.timestamp) \div 3600

\* stale as the code decides it: reserved, more than the timeout in whole
\* hours old, and its connection not among the open connections other than
\* the caller's own
StaleForCaller(r) ==
    /\ r.status = "reserved"
    /\ WholeHours(r) > stale_timeout_hours
    /\ r.connection_id \notin (processlist \ {OwnConnection})

\* stale as the specification words it: ... and its connection not among
\* the open connections
StaleAsWorded(r) ==
    /\ r.status = "reserved"
    /\ WholeHours(r) > stale_timeout_hours
    /\ r.connection_id \notin processlist

SameJob(q, r) == q.table_name = r.table_name /\ q.key = r.key

C13_DisabledChangesNothing ==
    [][ /\ (pc = "idle" /\ pc' # pc /\ (stale_timeout_hours <= 0 \/ stale_action = "None"))
              => (jobs' = jobs /\ pc' = "returned")
        /\ (CleanupPass /\ stale_timeout_hours <= 0) =>
              \A r \in jobs : r.status = "reserved" => r \in jobs'
        /\ remove_stale_reserved_jobs = "False" =>
              /\ stale_timeout_hours <= 0
              /\ \A r \in jobs : r.status = "reserved" => r \in jobs' ]_vars

C13_Witness ==
    /\ pc = "prune"
    /\ remove_stale_reserved_jobs = "False"
    /\ \E r \in jobs : /\ r.status = "reserved"
                       /\ WholeHours(r) = MaxAgeHours
                       /\ r.connection_id = DeadConnection

\* the Process rows stored under the worker_name
name_processes == {r \in registered_process : r.worker_name = WorkerName}

\* C14: a register_worker call that finds the worker's flag set or its
\* fingerprint in the ledger changes nothing (the row of the first call,
\* with its registration_time and Process rows, stays); the transaction is
\* entered only when the fingerprint is not in the ledger; a committed
\* registration replaces a row of a different fingerprint, leaving exactly
\* one worker row and exactly the Process rows of the new step list.
C14_RegisterIdempotent ==
    [][ \A d \in DeploymentIds :
          /\ (deployments[d].pc = "idle" /\ deployments'[d].pc = "loop") =>
                UNCHANGED <<registered_worker, registered_process>>
          /\ (deployments[d].pc = "idle" /\ deployments'[d].pc = "delete") =>
                \A r \in name_rows(registered_worker) :
                    r.worker_config_uuid #
                        worker_config_uuid_of(deployments[d].processes_to_run)
          /\ (deployments[d].pc = "commit" /\ deployments'[d].pc = "loop") =>
                /\ \A r \in name_rows(registered_worker) :
                      /\ r \notin registered_worker'
                      /\ r.worker_config_uuid #
                            worker_config_uuid_of(deployments[d].processes_to_run)
                /\ Cardinality(name_rows(registered_worker')) = 1
                /\ \A r \in name_rows(registered_worker') :
                      r.worker_config_uuid =
                          worker_config_uuid_of(deployments[d].processes_to_run)
                /\ registered_process' =
                      Range(process_entries_of(deployments[d].processes_to_run)) ]_vars

C14_Witness ==
    /\ deployments["a"].pc = "loop"
    /\ ~deployments["a"].is_registered
    /\ deployments["a"].processes_to_run =
            <<[type |-> "dj_table", process |-> "T1", kwargs |-> <<"max_calls">>]>>
    /\ \E r \in registered_worker :
          /\ r.registration_time < now
          /\ r.worker_config_uuid = worker_config_uuid_of(deployments["a"].processes_to_run)
    /\ Cardinality(registered_worker) = 1
    /\ Cardinality(registered_process) = 1

\* C15: in every committed state the ledger has at most one RegisteredWorker
\* row for the worker_name, no Process row without it, and with it exactly
\* the Process rows of one step list, the one whose fingerprint the worker
\* row stores.
C15_RegistrationAtomic ==
    /\ Cardinality(name_rows(registered_worker)) <= 1
    /\ name_rows(registered_worker) = {} => name_processes = {}
    /\ \A r \in name_rows(registered_worker) :
          \E steps \in DeployLists :
              /\ r.worker_config_uuid = worker_config_uuid_of(steps)
              /\ name_processes = Range(process_entries_of(steps))

C15_Witness ==
    /\ deployments["a"].pc = "commit"
    /\ deployments["b"].pc = "loop"
    /\ deployments["b"].is_registered
    /\ Len(deployments["a"].processes_to_run) = 2
    /\ deployments["a"].seen # name_rows(registered_worker)
    /\ deployments["a"].seen # {}
    /\ \E r \in registered_worker :
          r.worker_config_uuid = worker_config_uuid_of(deployments["b"].processes_to_run)
    /\ Cardinality(name_processes) = 1

\* C16 as claimed: when register_worker() of a newly deployed worker is
\* done, the worker_kwargs stored for the worker_name equal the worker's
\* current configuration.
C16_StoredKwargsAreCurrent ==
    [][ \A d \in DeploymentIds :
          (/\ deployments[d].pc \in {"idle", "commit"}
           /\ ~deployments[d].is_registered
           /\ deployments'[d].pc = "loop") =>
              \E r \in name_rows(registered_worker') :
                  r.worker_kwargs = worker_kwargs_of(deployments[d]) ]_vars

\* C17 as claimed: when run() starts its loop, the ledger holds a
\* RegisteredWorker row with the worker's name and the fingerprint of its
\* current step list.
C17_LoopStartsRegistered ==
    [][ \A d \in DeploymentIds :
          (deployments[d].pc # "loop" /\ deployments'[d].pc = "loop") =>
              fingerprint_present(registered_worker',
                                  deployments[d].processes_to_run) ]_vars

\* C18: the ErrorLog never holds two rows of one (process, key_hash); a
\* logging call that returns leaves the row of its pair equal to the entry
\* it logged (the pair's earlier row, if any, is replaced) and changes no
\* row of another pair.
C18_OneRowPerPair ==
    [][ /\ \A r1, r2 \in error_log' : same_pair(r1, r2) => r1 = r2
        /\ \A w \in WriterIds :
              (writers[w].pc \in {"insert", "update"} /\ writers'[w].pc = "done") =>
                  /\ writers[w].entry \in error_log'
                  /\ \A r \in error_log' : same_pair(r, writers[w].entry) =>
                                               r = writers[w].entry
                  /\ \A r \in error_log : ~same_pair(r, writers[w].entry) =>
                                               r \in error_log'
                  /\ \A r \in error_log' : ~same_pair(r, writers[w].entry) =>
                                               r \in error_log ]_vars

C18_Witness ==
    /\ writers["w1"].pc = "done"
    /\ writers["w2"].pc = "idle"
    /\ writers["w1"].entry \in error_log
    /\ same_pair(writers["w1"].entry, writers["w2"].entry)
    /\ writers["w1"].entry.error_message # writers["w2"].entry.error_message
    /\ writers["w1"].entry.error_timestamp > 0
    /\ Cardinality(error_log) = 2

\* C19 as claimed: whatever the interleaving of two workers logging an error
\* for the same (process, key_hash), neither call raises.
C19_NoUpsertRaises ==
    \A w \in WriterIds : writers[w].pc # "raised"

\* the row of the queue is the one `r` names, whatever its status now
InQueue(r) == \E q \in jobs : q.table_name = r.table_name /\ q.key = r.key

\* C21: once the generic delete of a cleanup pass is made, every row that
\* was in status error with a message matching a generic pattern is out of
\* the queue and has no ErrorLog record, committed or pending; the rows that
\* were in status reserved or ignore are still in the queue, whatever their
\* message.
C21_GenericErrorsRemovedUnlogged ==
    cleaning.stage # "none" =>
        \A r \in cleaning.before :
            /\ MatchesAny(r, generic_errors) =>
                  /\ r \notin jobs
                  /\ error_job_entry(r) \notin error_log
                  /\ error_job_entry(r) \notin cleaning.log
            /\ r.status \in {"reserved", "ignore"} => InQueue(r)

C21_Witness ==
    /\ cleaning.stage = "done"
    /\ \E r \in cleaning.before :
          /\ r.status = "error"
          /\ r.error_message = <<"CustomTimeout", " after ", "Deadlock">>
          /\ ~InQueue(r)
    /\ \E r \in cleaning.before :
          /\ r.status = "reserved"
          /\ r.error_message = <<"Deadlock">>
          /\ r \in jobs

\* C22 as claimed: a row the autoclear delete of a cleanup pass has taken
\* out of the queue has its ErrorLog record in every committed state, under
\* the process name of its schema and table; and an error row matching no
\* pattern of either list stays in the queue in status error.
C22_AutoclearedOnlyWithRecord ==
    /\ cleaning.stage \in {"committed", "done"} =>
          \A r \in cleaning.deleted :
              \E e \in error_log :
                  /\ e.process = <<SchemaName, r.table_name>>
                  /\ e.key = [key |-> r.key]
                  /\ e.error_message = r.error_message
    /\ cleaning.stage # "none" =>
          \A r \in cleaning.before :
              (/\ r.status = "error"
               /\ ~MatchesAny(r, generic_errors)
               /\ ~MatchesAny(r, autoclear_error_patterns)) => r \in jobs

\* C23 as claimed: with notifiers configured, a populate log record of a
\* table and status leads to notify() calls, carrying the job key, if and
\* only if the table was registered through add_step with that status in
\* notify_on; records of unwatched tables or unlisted statuses lead to none.
C23_NotifiedIffWatched ==
    last_emit.status # "none" =>
        /\ (last_emit.calls # {}) <=> last_emit.watched
        /\ \A c \in last_emit.calls : c.key = last_emit.key

\* the add_step call that just returned or raised
AddStepEnded(outcomes) ==
    /\ add_step_result'.outcome \in outcomes
    /\ last_emit' = last_emit
    /\ registered_worker' = registered_worker

\* a list with one element more, the others in their order
OneInserted(before, after) ==
    \E i \in 1..Len(after) :
        before = SubSeq(after, 1, i - 1) \o SubSeq(after, i + 1, Len(after))

\* C24: add_step ends with an error for a table that is not AutoPopulate
\* and for a target that is neither table nor function; after such an error,
\* and after the silent return for a table without schema, the step list, the
\* tracked schemas and the registered flag are as before the call; every
\* other add_step inserts exactly one step and leaves the flag cleared.
C24_AddStepRejectsOrInsertsOne ==
    [][ /\ add_step_result'.callable \in OtherTables =>
              add_step_result'.outcome = "AssertionError"
        /\ add_step_result'.callable \in OtherObjects =>
              add_step_result'.outcome = "TypeError"
        /\ (add_step_result'.callable \in AutoPopulateTables /\
              database(add_step_result'.callable) = "") =>
              add_step_result'.outcome = "skipped"
        /\ AddStepEnded({"AssertionError", "TypeError", "skipped"}) =>
              UNCHANGED <<processes_to_run, pipeline_modules, is_registered>>
        /\ (AddStepEnded({"added"}) /\
              <<add_step_result, processes_to_run, pipeline_modules, is_registered>>'
                  # <<add_step_result, processes_to_run, pipeline_modules, is_registered>>) =>
              /\ OneInserted(processes_to_run, processes_to_run')
              /\ ~is_registered' ]_vars

C24_Witness ==
    /\ is_registered
    /\ Len(processes_to_run) = 1
    /\ add_step_result = [callable |-> "L1", outcome |-> "AssertionError"]

\* the pruning statements of a cycle run in this step
PruningPass == pc = "prune" /\ pc' = "check"
\* the record is younger than the cutoff, to the second
Younger(timestamp) == now - timestamp < CutoffDays * SecondsPerDay

FunctionStepEnds ==
    /\ pc = "step"
    /\ CurrentStep.type = "function"
    /\ cycles_raised' = cycles_raised
    /\ worker_log' = log_process_job(CurrentStep)
\* where the cycle goes after the current step
NextInCycle == IF step_index = Len(processes_to_run) THEN "cleanup" ELSE "step"

C27_RaiseAbandonsCycle ==
    [][ /\ (pc = "step" /\ cycles_raised' = cycles_raised + 1) =>
              /\ pc' = "check"
              /\ UNCHANGED <<step_index, success_count, jobs, target, error_log,
                             idled_cycle_count, cycles_busy>>
        /\ (pc' = "cleanup" /\ pc # "cleanup") =>
              /\ cycles_raised' = cycles_raised
              /\ \/ pc = "step" /\ step_index = Len(processes_to_run)
                 \/ pc = "check" /\ processes_to_run = <<>>
        /\ (pc' = "prune" /\ pc # "prune") =>
              (pc = "cleanup" /\ cycles_raised' = cycles_raised) ]_vars

C27_Witness ==
    /\ pc = "check"
    /\ cycles_raised = 1
    /\ idled_cycle_count = 0
    /\ cycles_busy = 0
    /\ step_index = 1
    /\ Len(processes_to_run) = 2
    /\ processes_to_run[1].type = "dj_table"

OnlyFunctionSteps ==
    /\ processes_to_run # <<>>
    /\ \A i \in DOMAIN processes_to_run : processes_to_run[i].type = "function"

\* C28 as claimed: a table step adds to the cycle's count the jobs it made
\* plus the jobs that failed when populate returns a dict, and nothing
\* otherwise; a function step adds nothing; so every cycle of a worker of
\* function steps only counts as idle, and with max_idled_cycle = M > 0 such
\* a worker starts no more than M + 1 cycles.
C28_CallableOnlyWorkerStops ==
    /\ [][ /\ (FunctionStepEnds /\ step_index' = step_index + 1) =>
                  success_count' = success_count
           /\ (pc = "step" /\ step_index' = step_index + 1
                 /\ CurrentStep.type = "dj_table") =>
                  \/ success_count' = success_count
                  \/ success_count' = success_count
                        + Cardinality(target'[CurrentStep.process] \ target[CurrentStep.process])
                        + Cardinality(jobs' \ jobs)
           /\ (OnlyFunctionSteps /\ InCycle /\ pc' = "check") =>
                  idled_cycle_count' = idled_cycle_count + 1 ]_vars
    /\ []((OnlyFunctionSteps /\ InRun /\ max_idled_cycle > 0) =>
             CyclesStarted <= max_idled_cycle + 1)

TimeKeyed(r) == "error_time" \in DOMAIN r.key

\* C30: a failure of a function step without key mapping is logged under
\* the key {error_time: now}; the rows of earlier such failures stay as they
\* are unless the new failure has the very same process and time, and a row
\* of this kind leaves ErrorLog only by the pruning, when it is past the
\* cutoff: failures at N distinct times leave N rows.
C30_KeylessFailuresNeverMerged ==
    [][ /\ \A r \in error_log : TimeKeyed(r) =>
              \/ r \in error_log'
              \/ pc = "prune" /\ ElapsedDays(r.error_timestamp) > CutoffDays
              \/ \E q \in error_log' : /\ q.process = r.process
                                        /\ q.key = r.key
                                        /\ r.key.error_time = now
        /\ \A q \in error_log' \ error_log : TimeKeyed(q) =>
              /\ q.key = [error_time |-> now]
              /\ q.key_hash = dict_to_uuid(q.key)
        /\ Cardinality({r \in error_log' : TimeKeyed(r)}) >=
              Cardinality({r.key : r \in {x \in error_log : TimeKeyed(x)}}) ]_vars

C30_Witness ==
    /\ \E r1, r2 \in error_log :
          /\ r1.process = <<"f">> /\ r2.process = <<"f">>
          /\ TimeKeyed(r1) /\ TimeKeyed(r2)
          /\ r1.key.error_time < r2.key.error_time
    /\ pc = "returned"

====
